---- MODULE Spec2Model ----
(***************************************************************************)
(* Order/balance ledger and gamification-score reconciliation pipeline of  *)
(* linux-do/pay: the dispatch sweep HandleUpdateUserGamificationScores and  *)
(* the single-user worker HandleUpdateSingleUserGamificationScore          *)
(* (internal/apps/user/tasks.go), the rows they read and write, and the    *)
(* task queue between them.                                                *)
(*                                                                         *)
(* Decimal amounts (numeric(20,2)) are integers counting hundredths.       *)
(***************************************************************************)
EXTENDS Integers, Sequences, FiniteSets, Bags, TLC

(* ------------------------------ bounds -------------------------------- *)
\* number of rows of the users table
NumUsers == 3
\* the external score source answers with a score in 0..MaxScore
MaxScore == 1
\* number of reconciliation tasks pending when the worker pool starts
MaxTasks == 2
\* number of credits other writers (e.g. transfers) post to the ledger
MaxCredits == 1
\* number of dispatch sweeps started
MaxSweeps == 2
\* number of logins while the dispatcher is at work
MaxLogins == 1
\* pageSize of the dispatch sweep (200 in the source), scaled down
PageSize == 2
\* number of rows of the orders table a ListTransactions request runs against
MaxOrders == 3
\* config.Config.Schedule.UserGamificationScoreDispatchIntervalSeconds
DispatchIntervalSeconds == 2

(* ------------------------- program constants -------------------------- *)
\* asynq.MaxRetry(3)
MaxRetry == 3
\* numeric(20,2): two decimal places, stored as hundredths
Scale == 100
\* config.Config.App.SessionAge / 86400
DaySeconds == 86400
\* if sessionAgeDays < 7 { sessionAgeDays = 7 }
MinSessionAgeDays == 7

Users == 1..NumUsers
Workers == {"w1", "w2"}
Names == <<"alice", "bob", "carol", "dave", "erin", "frank">>
Username(u) == Names[u]
CommunityPayer == "LINUX DO Community"
OrderStatusSuccess == "success"
OrderTypeCommunity == "community"
OrderTypeTransfer == "transfer"

NoTask == [user_id |-> 0, retried |-> 0]

\* the zero values of an Order read, of a TransactionListRequest (NoTime: a
\* nil *time.Time) and of the response not yet written
NoLoaded == [ID |-> <<0, 0, 0>>, OrderNo |-> <<>>]
NoTime == 0 - 1
NoReq == [username |-> "", page |-> 0, page_size |-> 0, type |-> "",
          status |-> "", start_time |-> NoTime, end_time |-> NoTime]
NoResp == [status |-> 0, total |-> 0, page |-> 0, page_size |-> 0,
           orders |-> <<>>]

\* http.StatusOK
StatusOK == 200

\* what the score source can answer: no answer at all (transport error), a
\* status other than 200, a 200 whose body does not decode, a 200 whose JSON
\* object has no gamification_score member, a 200 whose object carries score s
NoReply == [transport |-> "", status |-> 0, json |-> "", gamification_score |-> 0 - 1]
TransportError == [transport |-> "error", status |-> 0, json |-> "", gamification_score |-> 0 - 1]
ServerError == [transport |-> "ok", status |-> 500, json |-> "object", gamification_score |-> 0 - 1]
Undecodable == [transport |-> "ok", status |-> StatusOK, json |-> "invalid", gamification_score |-> 0 - 1]
EmptyObject == [transport |-> "ok", status |-> StatusOK, json |-> "object", gamification_score |-> 0 - 1]
ScoreBody(s) == [transport |-> "ok", status |-> StatusOK, json |-> "object", gamification_score |-> s]
Replies ==
  {TransportError, ServerError, Undecodable, EmptyObject}
    \cup {ScoreBody(s) : s \in 0..MaxScore}
NoScore == 0 - 1
NoOrder == [payer_username |-> "", payee_username |-> "", amount |-> 0,
            status |-> "", type |-> "", remark |-> <<>>, created_at |-> 0]

\* values of the error a handler returns, by the statement that produced it
Errors == {"ErrFirst", "ErrScore", "ErrUpdate", "ErrCreate", "ErrCommit",
           "ErrQuery", "ErrEnqueue"}

VARIABLES
  users,      \* users table, committed rows: id -> row
  orders,     \* orders table, committed rows in insertion order
  queue,      \* task queue: bag of pending single-user tasks
  archived,   \* task queue: bag of tasks whose retries are exhausted
  credits,    \* number of credits other writers have posted
  pc,         \* worker -> position in HandleUpdateSingleUserGamificationScore
  task,       \* worker -> task being handled
  user,       \* worker -> the model.User loaded by First (a private copy)
  reply,      \* worker -> what the score source answered to the lookup
  response,   \* worker -> GamificationScore of the lookup's response
  txRow,      \* worker -> row image written inside the open transaction
  txOrder,    \* worker -> order inserted inside the open transaction
  ret,        \* worker -> what the handler returns: "nil" or an error
  mark,       \* worker -> Len(orders) when First read the row (history)
  lastOk,     \* user -> score observed by the latest run that returned nil (history)
  lastLookup, \* user -> score the most recent lookup for the user returned (history)
  now,        \* wall clock, seconds
  lastLogin,  \* users.last_login_at: id -> seconds
  sessionAge, \* config.Config.App.SessionAge, seconds
  logins,     \* number of logins so far
  sweeps,     \* number of dispatch sweeps started so far
  dpc,        \* position in HandleUpdateUserGamificationScores
  page,       \* dispatcher local: page
  currentDelay, \* dispatcher local: currentDelay, seconds
  oneWeekAgo, \* dispatcher local: oneWeekAgo, seconds
  found,      \* dispatcher local: rows of the page not yet iterated over, in order
  dret,       \* what the dispatch handler returns: "nil" or an error
  sent,       \* Enqueue calls of the current sweep that succeeded (history)
  queries,    \* page queries the current sweep has issued (history)
  activeAtStart, \* users inside the window when the sweep started (history)
  loginSinceStart, \* a login happened since the sweep started (history)
  loaded,     \* a model.Order read from the datastore: ID and derived OrderNo
  apc,        \* position in ListTransactions
  req,        \* ListTransactions: the bound TransactionListRequest and the requester
  total,      \* ListTransactions local: total
  resp,       \* ListTransactions: the response written
  nq,         \* ListTransactions: datastore queries executed (history)
  atCount     \* ListTransactions: rows in the table when Count ran (history)

ledgerVars == <<users, orders, credits>>
queueVars == <<queue, archived>>
workerVars == <<pc, task, user, reply, response, txRow, txOrder, ret, mark, lastOk,
               lastLookup>>
clockVars == <<now, lastLogin, sessionAge, logins>>
dispatchVars == <<sweeps, dpc, page, currentDelay, oneWeekAgo, found, dret,
                  sent, queries, activeAtStart, loginSinceStart>>
listVars == <<apc, req, total, resp, nq, atCount>>
apiVars == <<loaded, apc, req, total, resp, nq, atCount>>
vars == <<users, orders, queue, archived, credits, pc, task, user, reply,
          response,
          txRow, txOrder, ret, mark, lastOk, lastLookup, now, lastLogin, sessionAge,
          logins, sweeps, dpc, page, currentDelay, oneWeekAgo, found, dret,
          sent, queries, activeAtStart, loginSinceStart, loaded, apc, req,
          total, resp, nq, atCount>>

(* ------------------------------ helpers ------------------------------- *)
RECURSIVE SumAmounts(_, _)
\* sum of the amounts of the orders of seq s whose index is in idx
SumAmounts(s, idx) ==
  IF idx = {} THEN 0
  ELSE LET i == CHOOSE j \in idx : TRUE
       IN s[i].amount + SumAmounts(s, idx \ {i})

\* a freshly created users row: every ledger column has default:0
NewUser(u) ==
  [id |-> u, username |-> Username(u),
   total_receive |-> 0, total_payment |-> 0, total_transfer |-> 0,
   total_community |-> 0, available_balance |-> 0]

NoUser == [id |-> 0, username |-> "",
           total_receive |-> 0, total_payment |-> 0, total_transfer |-> 0,
           total_community |-> 0, available_balance |-> 0]

\* decimal.NewFromInt: the integer as a decimal amount
NewFromInt(i) == i * Scale

\* tasks of earlier sweeps that have failed before and have one retry left
RetriedTasks == {[user_id |-> u, retried |-> MaxRetry - 1] : u \in Users}

\* user id a worker's task names
Uid(w) == task[w].user_id

\* a transaction that has updated a row holds its row lock until it ends
RowLocked(u) == \E w \in Workers : pc[w] \in {"updated", "created"} /\ Uid(w) = u

\* another handler invocation for the same user is in progress
Busy(u) == \E w \in Workers : pc[w] # "idle" /\ Uid(w) = u

(* --------------- HandleUpdateSingleUserGamificationScore -------------- *)
\* newCommunityBalance := decimal.NewFromInt(response.GamificationScore)
NewCommunityBalance(w) == NewFromInt(response[w])

\* faulty variant: the subtraction the other way round
DiffReversed(w) == user[w].total_community - NewCommunityBalance(w)

\* diff := newCommunityBalance.Sub(user.TotalCommunity)
Diff(w) == NewCommunityBalance(w) - user[w].total_community

\* faulty variant: read-modify-write, the new balance computed from the loaded copy
UpdateColumnsCached(row, w) ==
  [row EXCEPT !.total_community = NewCommunityBalance(w),
              !.total_receive = @ + (NewCommunityBalance(w) - user[w].total_community),
              !.available_balance = user[w].available_balance
                                      + (NewCommunityBalance(w) - user[w].total_community)]

\* faulty variant: read-modify-write of total_receive from the loaded copy
UpdateColumnsCachedReceive(row, w) ==
  [row EXCEPT !.total_community = NewCommunityBalance(w),
              !.total_receive = user[w].total_receive
                                  + (NewCommunityBalance(w) - user[w].total_community),
              !.available_balance = @ + (NewCommunityBalance(w) - user[w].total_community)]

\* faulty variant: total_community is left out of the column map
UpdateColumnsKeepsTotal(row, w) ==
  [row EXCEPT !.total_receive = @ + (NewCommunityBalance(w) - user[w].total_community),
              !.available_balance = @ + (NewCommunityBalance(w) - user[w].total_community)]

\* faulty variant: the delta is booked on total_transfer as well
UpdateColumnsTouchesTransfer(row, w) ==
  [row EXCEPT !.total_community = NewCommunityBalance(w),
              !.total_receive = @ + (NewCommunityBalance(w) - user[w].total_community),
              !.total_transfer = @ + (NewCommunityBalance(w) - user[w].total_community),
              !.available_balance = @ + (NewCommunityBalance(w) - user[w].total_community)]

\* tx.Model(&user).UpdateColumns: total_community is assigned, total_receive
\* and available_balance are incremented in place on the stored row
UpdateColumns(row, w) ==
  [row EXCEPT !.total_community = NewCommunityBalance(w),
              !.total_receive = @ + Diff(w),
              !.available_balance = @ + Diff(w)]

\* the model.Order the worker builds
CommunityOrder(w) ==
  [payer_username |-> CommunityPayer,
   payee_username |-> user[w].username,
   amount |-> Diff(w),
   status |-> OrderStatusSuccess,
   type |-> OrderTypeCommunity,
   remark |-> <<user[w].total_community, NewCommunityBalance(w), Diff(w)>>,
   created_at |-> now]

\* users table after the transaction of worker w commits
CommitUsers(w) == [users EXCEPT ![Uid(w)] = txRow[w]]

\* orders table after the transaction of worker w commits
CommitOrders(w) == Append(orders, txOrder[w])

\* faulty variant: the column update is not undone
RollbackKeepsUpdate(w) == [users EXCEPT ![Uid(w)] = txRow[w]]

\* users table after the transaction of worker w is rolled back
RollbackUsers(w) == users

\* orders table after the transaction of worker w is rolled back
RollbackOrders(w) == orders

\* faulty variant: the status of the answer is not looked at
LookupResultIgnoresStatus(r) ==
  IF r.transport = "error" \/ r.json = "invalid"
    THEN [err |-> TRUE, GamificationScore |-> 0]
    ELSE [err |-> FALSE,
          GamificationScore |-> IF r.gamification_score = NoScore
                                  THEN 0 ELSE r.gamification_score]

\* User.GetUserGamificationScore: an error for a failed request, a status
\* other than 200 or a body json.Decode rejects; otherwise the decoded
\* struct, whose GamificationScore keeps Go's zero value when the object has
\* no gamification_score member
LookupResult(r) ==
  IF r.transport = "error" THEN [err |-> TRUE, GamificationScore |-> 0]
  ELSE IF r.status # StatusOK THEN [err |-> TRUE, GamificationScore |-> 0]
  ELSE IF r.json = "invalid" THEN [err |-> TRUE, GamificationScore |-> 0]
  ELSE [err |-> FALSE,
        GamificationScore |-> IF r.gamification_score = NoScore
                                THEN 0 ELSE r.gamification_score]

\* the queue hands a pending task to an idle worker, and the handler loads
\* the user row: db.Where("id = ?", payload.UserID).First(&user)
First(w, t) ==
  /\ pc[w] = "idle"
  /\ BagIn(t, queue)
  /\ t.user_id \in Users
  /\ queue' = queue (-) SetToBag({t})
  /\ task' = [task EXCEPT ![w] = t]
  /\ user' = [user EXCEPT ![w] = users[t.user_id]]
  /\ mark' = [mark EXCEPT ![w] = Len(orders)]
  /\ pc' = [pc EXCEPT ![w] = "loaded"]
  /\ UNCHANGED <<apiVars, ledgerVars, archived, reply, response, txRow, txOrder, ret, lastOk, lastLookup,
                 clockVars, dispatchVars>>

\* First fails (no row with that id, or a datastore error): the handler
\* returns the wrapped error
FirstFail(w, t) ==
  /\ pc[w] = "idle"
  /\ BagIn(t, queue)
  /\ queue' = queue (-) SetToBag({t})
  /\ task' = [task EXCEPT ![w] = t]
  /\ pc' = [pc EXCEPT ![w] = "done"]
  /\ ret' = [ret EXCEPT ![w] = "ErrFirst"]
  /\ UNCHANGED <<apiVars, ledgerVars, archived, user, reply, response, txRow, txOrder, mark,
                 lastOk, lastLookup, clockVars, dispatchVars>>

\* user.GetUserGamificationScore returns a response for the answer r
GetUserGamificationScore(w, r) ==
  /\ pc[w] = "loaded"
  /\ ~LookupResult(r).err
  /\ reply' = [reply EXCEPT ![w] = r]
  /\ response' = [response EXCEPT ![w] = LookupResult(r).GamificationScore]
  /\ lastLookup' = [lastLookup EXCEPT
                      ![Uid(w)] = LookupResult(r).GamificationScore]
  /\ pc' = [pc EXCEPT ![w] = "fetched"]
  /\ UNCHANGED <<apiVars, ledgerVars, queueVars, task, user, txRow, txOrder, ret, mark, lastOk,
                 clockVars, dispatchVars>>

\* user.GetUserGamificationScore returns an error for the answer r: the
\* handler returns it
GetUserGamificationScoreFail(w, r) ==
  /\ pc[w] = "loaded"
  /\ LookupResult(r).err
  /\ reply' = [reply EXCEPT ![w] = r]
  /\ pc' = [pc EXCEPT ![w] = "done"]
  /\ ret' = [ret EXCEPT ![w] = "ErrScore"]
  /\ UNCHANGED <<apiVars, ledgerVars, queueVars, task, user, response, txRow, txOrder, mark, lastOk, lastLookup,
                 clockVars, dispatchVars>>

\* user.TotalCommunity.Equal(newCommunityBalance): skip, return nil
SkipUnchanged(w) ==
  /\ pc[w] = "fetched"
  /\ user[w].total_community = NewCommunityBalance(w)
  /\ pc' = [pc EXCEPT ![w] = "done"]
  /\ ret' = [ret EXCEPT ![w] = "nil"]
  /\ UNCHANGED <<apiVars, ledgerVars, queueVars, task, user, reply, response, txRow, txOrder, mark, lastOk, lastLookup,
                 clockVars, dispatchVars>>

\* the transaction begins and UpdateColumns runs on the stored row
TxUpdateColumns(w) ==
  /\ pc[w] = "fetched"
  /\ user[w].total_community # NewCommunityBalance(w)
  /\ ~RowLocked(Uid(w))
  /\ txRow' = [txRow EXCEPT ![w] = UpdateColumns(users[Uid(w)], w)]
  /\ pc' = [pc EXCEPT ![w] = "updated"]
  /\ UNCHANGED <<apiVars, ledgerVars, queueVars, task, user, reply, response, txOrder, ret, mark, lastOk, lastLookup,
                 clockVars, dispatchVars>>

\* UpdateColumns fails: the transaction is rolled back, the error returned
TxUpdateColumnsFail(w) ==
  /\ pc[w] = "fetched"
  /\ user[w].total_community # NewCommunityBalance(w)
  /\ pc' = [pc EXCEPT ![w] = "done"]
  /\ ret' = [ret EXCEPT ![w] = "ErrUpdate"]
  /\ UNCHANGED <<apiVars, ledgerVars, queueVars, task, user, reply, response, txRow, txOrder, mark, lastOk, lastLookup,
                 clockVars, dispatchVars>>

\* tx.Create(&order)
TxCreate(w) ==
  /\ pc[w] = "updated"
  /\ txOrder' = [txOrder EXCEPT ![w] = CommunityOrder(w)]
  /\ pc' = [pc EXCEPT ![w] = "created"]
  /\ UNCHANGED <<apiVars, ledgerVars, queueVars, task, user, reply, response, txRow, ret, mark, lastOk, lastLookup,
                 clockVars, dispatchVars>>

\* tx.Create fails: the transaction is rolled back, the error returned
TxCreateFail(w) ==
  /\ pc[w] = "updated"
  /\ users' = RollbackUsers(w)
  /\ orders' = RollbackOrders(w)
  /\ txRow' = [txRow EXCEPT ![w] = NoUser]
  /\ pc' = [pc EXCEPT ![w] = "done"]
  /\ ret' = [ret EXCEPT ![w] = "ErrCreate"]
  /\ UNCHANGED <<apiVars, credits, queueVars, task, user, reply, response, txOrder, mark, lastOk, lastLookup,
                 clockVars, dispatchVars>>

\* the closure returned nil: the transaction commits, the handler returns nil
TxCommit(w) ==
  /\ pc[w] = "created"
  /\ users' = CommitUsers(w)
  /\ orders' = CommitOrders(w)
  /\ txRow' = [txRow EXCEPT ![w] = NoUser]
  /\ txOrder' = [txOrder EXCEPT ![w] = NoOrder]
  /\ pc' = [pc EXCEPT ![w] = "done"]
  /\ ret' = [ret EXCEPT ![w] = "nil"]
  /\ UNCHANGED <<apiVars, credits, queueVars, task, user, reply, response, mark, lastOk, lastLookup,
                 clockVars, dispatchVars>>

\* the commit fails: the transaction is rolled back, the error returned
TxCommitFail(w) ==
  /\ pc[w] = "created"
  /\ users' = RollbackUsers(w)
  /\ orders' = RollbackOrders(w)
  /\ txRow' = [txRow EXCEPT ![w] = NoUser]
  /\ txOrder' = [txOrder EXCEPT ![w] = NoOrder]
  /\ pc' = [pc EXCEPT ![w] = "done"]
  /\ ret' = [ret EXCEPT ![w] = "ErrCommit"]
  /\ UNCHANGED <<apiVars, credits, queueVars, task, user, reply, response, mark, lastOk, lastLookup,
                 clockVars, dispatchVars>>

\* the handler has returned nil: the queue marks the task done
ReturnNil(w) ==
  /\ pc[w] = "done"
  /\ ret[w] = "nil"
  /\ pc' = [pc EXCEPT ![w] = "idle"]
  /\ task' = [task EXCEPT ![w] = NoTask]
  /\ user' = [user EXCEPT ![w] = NoUser]
  /\ reply' = [reply EXCEPT ![w] = NoReply]
  /\ response' = [response EXCEPT ![w] = NoScore]
  /\ ret' = [ret EXCEPT ![w] = ""]
  /\ mark' = [mark EXCEPT ![w] = 0]
  /\ UNCHANGED <<apiVars, ledgerVars, queueVars, txRow, txOrder, lastLookup,
                 clockVars, dispatchVars>>

\* history: the score observed by the latest run for the user that returned nil
RecordOk(w) == lastOk' = [lastOk EXCEPT ![Uid(w)] = response[w]]

\* faulty variant: one retry more than asked for
ExhaustedLate(t) == t.retried >= MaxRetry + 1

\* asynq.MaxRetry(3): the task has been retried as often as allowed
Exhausted(t) == t.retried >= MaxRetry

\* the handler has returned an error: the queue schedules a retry while
\* retried < MaxRetry and archives the task otherwise
ReturnErr(w) ==
  /\ pc[w] = "done"
  /\ ret[w] \in Errors
  /\ IF ~Exhausted(task[w])
       THEN /\ queue' = queue (+) SetToBag({[task[w] EXCEPT !.retried = @ + 1]})
            /\ UNCHANGED archived
       ELSE /\ archived' = archived (+) SetToBag({task[w]})
            /\ UNCHANGED queue
  /\ pc' = [pc EXCEPT ![w] = "idle"]
  /\ task' = [task EXCEPT ![w] = NoTask]
  /\ user' = [user EXCEPT ![w] = NoUser]
  /\ reply' = [reply EXCEPT ![w] = NoReply]
  /\ response' = [response EXCEPT ![w] = NoScore]
  /\ ret' = [ret EXCEPT ![w] = ""]
  /\ mark' = [mark EXCEPT ![w] = 0]
  /\ UNCHANGED <<apiVars, ledgerVars, txRow, txOrder, lastOk, lastLookup,
                 clockVars, dispatchVars>>

(* ---------------------------- environment ----------------------------- *)
\* another writer credits x to a user with an in-place additive update and
\* inserts the matching order, in one transaction of its own
TransferCredit(u, p, x) ==
  /\ credits < MaxCredits
  /\ p # u
  /\ ~RowLocked(u)
  /\ users' = [users EXCEPT ![u].total_receive = @ + x,
                            ![u].available_balance = @ + x]
  /\ orders' = Append(orders,
        [payer_username |-> Username(p), payee_username |-> Username(u),
         amount |-> x, status |-> OrderStatusSuccess,
         type |-> OrderTypeTransfer, remark |-> <<>>, created_at |-> now])
  /\ credits' = credits + 1
  /\ UNCHANGED <<apiVars, queueVars, workerVars,
                 clockVars, dispatchVars>>

(* ----------------- HandleUpdateUserGamificationScores ------------------ *)
\* faulty variant: the cutoff counted back from now, not from midnight
TodayUnanchored(t) == t

\* today: time.Date(now.Year(), now.Month(), now.Day(), 0, 0, 0, 0, ...)
Today(t) == t - (t % DaySeconds)

\* Go's integer division, which truncates toward zero
Quot(a, b) == IF a >= 0 THEN a \div b ELSE 0 - ((0 - a) \div b)

\* sessionAgeDays, floored at 7
SessionAgeDays(age) ==
  LET d == Quot(age, DaySeconds)
  IN IF d < MinSessionAgeDays THEN MinSessionAgeDays ELSE d

\* oneWeekAgo := today.AddDate(0, 0, -sessionAgeDays)
OneWeekAgo(t, age) == Today(t) - SessionAgeDays(age) * DaySeconds

\* WHERE last_login_at >= ?
Active(cutoff) == {u \in Users : lastLogin[u] >= cutoff}

\* the orders ORDER BY last_login_at DESC may return the active users in:
\* rows with equal last_login_at come in any order, chosen anew by each query
Orderings(cutoff) ==
  LET A == Active(cutoff)
  IN {f \in [1..Cardinality(A) -> A] :
        /\ \A i, j \in DOMAIN f : i < j => f[i] # f[j]
        /\ \A i, j \in DOMAIN f : i < j => lastLogin[f[i]] >= lastLogin[f[j]]}

\* faulty variant: pages counted from 1
PageOffsetFromOne(p) == (p + 1) * PageSize

\* OFFSET ?: page*pageSize
PageOffset(p) == p * PageSize

\* the rows of ... ORDER BY last_login_at DESC LIMIT ? OFFSET ?, the
\* ordered result being ord
PageQuery(ord, limit, offset) ==
  LET last == IF offset + limit < Len(ord) THEN offset + limit ELSE Len(ord)
  IN SubSeq(ord, offset + 1, last)

\* faulty variant: the loop also ends on a page shorter than pageSize
NoMoreUsersShortPage(rows) == Len(rows) < PageSize

\* if len(users) == 0 { break }
NoMoreUsers(rows) == Len(rows) = 0

\* faulty variant: the delay is not accumulated
NextDelayFlat(d) == DispatchIntervalSeconds

\* currentDelay += interval
NextDelay(d) == d + DispatchIntervalSeconds

\* faulty variant: the page counter is left as it is
NextPageStays(p) == p

\* page++
NextPage(p) == p + 1

\* the queue invokes the handler: locals are initialised, the cutoff computed
DispatchStart ==
  /\ dpc \in {"idle", "done"}
  /\ sweeps < MaxSweeps
  /\ sweeps' = sweeps + 1
  /\ page' = 0
  /\ currentDelay' = 0
  /\ oneWeekAgo' = OneWeekAgo(now, sessionAge)
  /\ found' = <<>>
  /\ dret' = ""
  /\ sent' = <<>>
  /\ queries' = 0
  /\ activeAtStart' = Active(OneWeekAgo(now, sessionAge))
  /\ loginSinceStart' = FALSE
  /\ dpc' = "query"
  /\ UNCHANGED <<apiVars, ledgerVars, queueVars, workerVars, clockVars>>

\* the page query succeeds; an empty page ends the loop and the handler
\* returns nil
QueryPage ==
  /\ dpc = "query"
  /\ queries' = queries + 1
  /\ \E ord \in Orderings(oneWeekAgo) :
       found' = PageQuery(ord, PageSize, PageOffset(page))
  /\ IF NoMoreUsers(found')
       THEN dpc' = "done" /\ dret' = "nil"
       ELSE dpc' = "enqueue" /\ UNCHANGED dret
  /\ UNCHANGED <<apiVars, ledgerVars, queueVars, workerVars, clockVars, sweeps, page,
                 currentDelay, oneWeekAgo, sent, activeAtStart, loginSinceStart>>

\* the page query fails: the handler returns the error
QueryPageFail ==
  /\ dpc = "query"
  /\ queries' = queries + 1
  /\ dpc' = "done"
  /\ dret' = "ErrQuery"
  /\ UNCHANGED <<apiVars, ledgerVars, queueVars, workerVars, clockVars, sweeps, page,
                 currentDelay, oneWeekAgo, found, sent, activeAtStart,
                 loginSinceStart>>

\* one iteration of the inner loop: the delay grows, the task is enqueued;
\* after the last user of the page, page++
Enqueue(u) ==
  /\ dpc = "enqueue"
  /\ found # <<>>
  /\ u = Head(found)
  /\ currentDelay' = NextDelay(currentDelay)
  /\ queue' = queue (+) SetToBag({[user_id |-> u, retried |-> 0]})
  /\ sent' = Append(sent, [user_id |-> u, delay |-> currentDelay'])
  /\ found' = Tail(found)
  /\ IF found' = <<>>
       THEN page' = NextPage(page) /\ dpc' = "query"
       ELSE UNCHANGED <<page, dpc>>
  /\ UNCHANGED <<apiVars, ledgerVars, archived, workerVars, clockVars, sweeps,
                 oneWeekAgo, dret, queries, activeAtStart, loginSinceStart>>

\* faulty variant: a failed Enqueue is logged and the loop goes on
EnqueueFailSkips(u) ==
  /\ dpc = "enqueue"
  /\ found # <<>>
  /\ u = Head(found)
  /\ currentDelay' = NextDelay(currentDelay)
  /\ found' = Tail(found)
  /\ IF found' = <<>>
       THEN page' = NextPage(page) /\ dpc' = "query"
       ELSE UNCHANGED <<page, dpc>>
  /\ UNCHANGED <<apiVars, ledgerVars, queueVars, workerVars, clockVars, sweeps,
                 oneWeekAgo, dret, sent, queries, activeAtStart,
                 loginSinceStart>>

\* faulty variant: a failed Enqueue takes back the tasks the sweep has enqueued
EnqueueFailRetracts(u) ==
  /\ dpc = "enqueue"
  /\ found # <<>>
  /\ u = Head(found)
  /\ currentDelay' = NextDelay(currentDelay)
  /\ queue' = queue (-)
       [t \in {[user_id |-> sent[k].user_id, retried |-> 0] : k \in 1..Len(sent)}
          |-> Cardinality({k \in 1..Len(sent) : sent[k].user_id = t.user_id})]
  /\ dpc' = "done"
  /\ dret' = "ErrEnqueue"
  /\ UNCHANGED <<apiVars, ledgerVars, archived, workerVars, clockVars, sweeps, page,
                 oneWeekAgo, found, sent, queries, activeAtStart,
                 loginSinceStart>>

\* Enqueue fails: the handler returns errTask
EnqueueFail(u) ==
  /\ dpc = "enqueue"
  /\ found # <<>>
  /\ u = Head(found)
  /\ currentDelay' = NextDelay(currentDelay)
  /\ dpc' = "done"
  /\ dret' = "ErrEnqueue"
  /\ UNCHANGED <<apiVars, ledgerVars, queueVars, workerVars, clockVars, sweeps, page,
                 oneWeekAgo, found, sent, queries, activeAtStart,
                 loginSinceStart>>

\* a user logs in: last_login_at becomes the newest of the table
Login(u) ==
  /\ logins < MaxLogins
  /\ logins' = logins + 1
  /\ now' = now + 1
  /\ lastLogin' = [lastLogin EXCEPT ![u] = now']
  /\ loginSinceStart' = (loginSinceStart \/ dpc # "idle")
  /\ UNCHANGED <<apiVars, ledgerVars, queueVars, workerVars, sessionAge, sweeps, dpc,
                 page, currentDelay, oneWeekAgo, found, dret, sent, queries,
                 activeAtStart>>

(* ------------------------------ model.Order --------------------------- *)
\* Order.ID is a uint64. It is held as three limbs <<high, middle, low>> in
\* base 10^LimbDigits, most significant first: ID = high * 10^14 + middle * 10^7 + low.
LimbDigits == 7
LimbBase == 10 ^ LimbDigits

\* 2^64 - 1 = 18446744073709551615
MaxUint64 == <<184467, 4407370, 9551615>>

\* a <= b for two limb triples
LimbLeq(a, b) ==
  \/ a[1] < b[1]
  \/ a[1] = b[1] /\ a[2] < b[2]
  \/ a[1] = b[1] /\ a[2] = b[2] /\ a[3] <= b[3]

\* the characters '0'..'9'; the character of digit d is DigitChars[d + 1]
DigitChars == <<"0", "1", "2", "3", "4", "5", "6", "7", "8", "9">>
DigitChar(d) == DigitChars[d + 1]
DigitValue(c) == (CHOOSE i \in 1..Len(DigitChars) : DigitChars[i] = c) - 1

RECURSIVE FormatInt(_)
\* the decimal digits of a natural number, no leading zero ("0" for 0)
FormatInt(n) ==
  IF n < 10 THEN <<DigitChar(n)>>
  ELSE Append(FormatInt(n \div 10), DigitChar(n % 10))

RECURSIVE Zeros(_)
Zeros(k) == IF k <= 0 THEN <<>> ELSE <<"0">> \o Zeros(k - 1)

\* the digits of one lower limb, which stand at a fixed width inside the number
FormatLimb(n) == Zeros(LimbDigits - Len(FormatInt(n))) \o FormatInt(n)

\* %d of a uint64: its decimal representation
FormatUint(id) ==
  IF id[1] > 0 THEN FormatInt(id[1]) \o FormatLimb(id[2]) \o FormatLimb(id[3])
  ELSE IF id[2] > 0 THEN FormatInt(id[2]) \o FormatLimb(id[3])
  ELSE FormatInt(id[3])

\* the minimum field width of the verb %018d
OrderNoWidth == 18

\* faulty variant: the verb %d, no padding
SprintfNoPad(id) == FormatUint(id)

\* fmt.Sprintf("%018d", id): zeros on the left up to the width, and the whole
\* representation when it is wider than that
Sprintf018d(id) == Zeros(OrderNoWidth - Len(FormatUint(id))) \o FormatUint(id)

\* the IDs a row is read with: small ones, the largest of each limb, the
\* first ID of 19 digits and the largest uint64
SampleIDs ==
  {id \in {0, 1, 9999, 10000, MaxUint64[1]}
            \X {0, 1, LimbBase - 1, MaxUint64[2]}
            \X {0, 1, 7, LimbBase - 1, MaxUint64[3]} :
     /\ LimbLeq(id, MaxUint64)
     /\ id # <<0, 0, 0>>}

\* a row as the datastore hands it over: OrderNo is not a column
InitOrderNo == \E id \in SampleIDs : loaded = [ID |-> id, OrderNo |-> <<>>]

\* Order.AfterFind
AfterFind ==
  /\ loaded.OrderNo = <<>>
  /\ loaded.ID # <<0, 0, 0>>
  /\ loaded' = [loaded EXCEPT !.OrderNo = Sprintf018d(loaded.ID)]
  /\ UNCHANGED <<ledgerVars, queueVars, workerVars, clockVars, dispatchVars,
                 listVars>>

(* --------------------------- ListTransactions -------------------------- *)
\* binding:"min=1,max=100" of PageSize
MaxPageSize == 100
\* binding:"min=1" of Page and of PageSize
MinPage == 1
StatusBadRequest == 400
StatusInternalServerError == 500

TypeOneOf == {"receive", "payment", "transfer", "community"}
StatusOneOf == {"success", "pending", "failed", "disputing", "refund", "refunded"}

\* faulty variant: the binding of PageSize without max=100
BindOutcomesNoMax(rq) ==
  IF \/ rq.page < MinPage
     \/ rq.page_size < MinPage
     \/ rq.type # "" /\ rq.type \notin TypeOneOf
     \/ rq.status # "" /\ rq.status \notin StatusOneOf
     \/ rq.end_time # NoTime /\ rq.start_time # NoTime
          /\ ~(rq.end_time > rq.start_time)
  THEN {FALSE}
  ELSE IF rq.end_time # NoTime /\ rq.start_time = NoTime THEN {TRUE, FALSE}
  ELSE {TRUE}

\* what c.ShouldBindJSON(&req) can answer for the body rq: TRUE for bound,
\* FALSE for an error. The tags of TransactionListRequest decide it, except
\* for gtfield=StartTime against an absent StartTime, where either may happen.
BindOutcomes(rq) ==
  IF \/ rq.page < MinPage
     \/ rq.page_size < MinPage
     \/ rq.page_size > MaxPageSize
     \/ rq.type # "" /\ rq.type \notin TypeOneOf
     \/ rq.status # "" /\ rq.status \notin StatusOneOf
     \/ rq.end_time # NoTime /\ rq.start_time # NoTime
          /\ ~(rq.end_time > rq.start_time)
  THEN {FALSE}
  ELSE IF rq.end_time # NoTime /\ rq.start_time = NoTime THEN {TRUE, FALSE}
  ELSE {TRUE}

\* the optional conditions added to baseQuery
Filters(o, rq) ==
  /\ rq.status # "" => o.status = rq.status
  /\ rq.type # "" => o.type = rq.type
  /\ rq.start_time # NoTime => o.created_at >= rq.start_time
  /\ rq.end_time # NoTime => o.created_at <= rq.end_time

\* faulty variant: the OR condition joined to the filters without parentheses
MatchesUnparenthesised(o, rq) ==
  \/ o.payee_username = rq.username
  \/ o.payer_username = rq.username /\ Filters(o, rq)

\* the WHERE clause of baseQuery:
\* (payee_username = ? OR payer_username = ?) AND the filters supplied
Matches(o, rq) ==
  /\ o.payee_username = rq.username \/ o.payer_username = rq.username
  /\ Filters(o, rq)

MatchingIdx(rq) == {i \in DOMAIN orders : Matches(orders[i], rq)}

\* a row of the orders table as Find loads it, the primary key with it
Row(i) ==
  [id |-> i,
   payer_username |-> orders[i].payer_username,
   payee_username |-> orders[i].payee_username,
   amount |-> orders[i].amount,
   status |-> orders[i].status,
   type |-> orders[i].type,
   created_at |-> orders[i].created_at]

\* the orders ORDER BY created_at DESC may return the matching rows in: rows
\* with equal created_at come in any order
ListOrderings(rq) ==
  LET A == MatchingIdx(rq)
  IN {f \in [1..Cardinality(A) -> A] :
        /\ \A i, j \in DOMAIN f : i < j => f[i] # f[j]
        /\ \A i, j \in DOMAIN f :
             i < j => orders[f[i]].created_at >= orders[f[j]].created_at}

\* offset := (req.Page - 1) * req.PageSize
ListOffset(rq) == (rq.page - 1) * rq.page_size

\* the number of fields of rq that break a binding tag
Faults(rq) ==
  (IF rq.page < MinPage THEN 1 ELSE 0)
  + (IF rq.page_size < MinPage \/ rq.page_size > MaxPageSize THEN 1 ELSE 0)
  + (IF rq.type # "" /\ rq.type \notin TypeOneOf THEN 1 ELSE 0)
  + (IF rq.status # "" /\ rq.status \notin StatusOneOf THEN 1 ELSE 0)
  + (IF rq.end_time # NoTime /\ rq.start_time # NoTime
          /\ ~(rq.end_time > rq.start_time) THEN 1 ELSE 0)

\* the requests tried: both sides of every bound of the binding tags, at most
\* one field at fault in a request
SampleRequests ==
  {rq \in [username : {"alice", "bob"},
           page : {0, 1, 2},
           page_size : {0, 1, 2, MaxPageSize, MaxPageSize + 1},
           type : {"", "transfer", "bogus"},
           status : {"", "success", "bogus"},
           start_time : {NoTime, 2},
           end_time : {NoTime, 2, 3}] : Faults(rq) <= 1}

\* the rows the orders table is filled with
SampleOrders ==
  {[payer_username |-> "alice", payee_username |-> "bob", amount |-> Scale,
    status |-> "success", type |-> "transfer", remark |-> <<>>,
    created_at |-> 1],
   [payer_username |-> CommunityPayer, payee_username |-> "alice",
    amount |-> Scale, status |-> "success", type |-> "community",
    remark |-> <<>>, created_at |-> 2],
   [payer_username |-> "bob", payee_username |-> "alice", amount |-> Scale,
    status |-> "pending", type |-> "transfer", remark |-> <<>>,
    created_at |-> 2]}

\* an orders table of at most n rows, created_at (autoCreateTime) growing
\* with the primary key
OrderTables(n) ==
  UNION {{t \in [1..k -> SampleOrders] :
            \A i, j \in 1..k : i < j => t[i].created_at <= t[j].created_at} :
         k \in 0..n}

\* c.ShouldBindJSON(&req) succeeds
ShouldBindJSON(rq) ==
  /\ apc = "idle"
  /\ TRUE \in BindOutcomes(rq)
  /\ req' = rq
  /\ apc' = "bound"
  /\ UNCHANGED <<ledgerVars, queueVars, workerVars, clockVars, dispatchVars,
                 loaded, total, resp, nq, atCount>>

\* c.ShouldBindJSON(&req) fails: 400 and return
ShouldBindJSONFail(rq) ==
  /\ apc = "idle"
  /\ FALSE \in BindOutcomes(rq)
  /\ req' = rq
  /\ resp' = [NoResp EXCEPT !.status = StatusBadRequest]
  /\ apc' = "responded"
  /\ UNCHANGED <<ledgerVars, queueVars, workerVars, clockVars, dispatchVars,
                 loaded, total, nq, atCount>>

\* baseQuery.Count(&total)
Count ==
  /\ apc = "bound"
  /\ total' = Cardinality(MatchingIdx(req))
  /\ nq' = nq + 1
  /\ atCount' = Len(orders)
  /\ apc' = "counted"
  /\ UNCHANGED <<ledgerVars, queueVars, workerVars, clockVars, dispatchVars,
                 loaded, req, resp>>

\* baseQuery.Count(&total) fails: 500 and return
CountFail ==
  /\ apc = "bound"
  /\ nq' = nq + 1
  /\ resp' = [NoResp EXCEPT !.status = StatusInternalServerError]
  /\ apc' = "responded"
  /\ UNCHANGED <<ledgerVars, queueVars, workerVars, clockVars, dispatchVars,
                 loaded, req, total, atCount>>

\* baseQuery.Order("created_at DESC").Offset(offset).Limit(req.PageSize)
\* .Find(&orders), then the 200 response
Find ==
  /\ apc = "counted"
  /\ \E ord \in ListOrderings(req) :
       resp' = [status |-> StatusOK, total |-> total, page |-> req.page,
                page_size |-> req.page_size,
                orders |-> [i \in 1..Len(PageQuery(ord, req.page_size,
                                                   ListOffset(req))) |->
                              Row(PageQuery(ord, req.page_size,
                                            ListOffset(req))[i])]]
  /\ nq' = nq + 1
  /\ apc' = "responded"
  /\ UNCHANGED <<ledgerVars, queueVars, workerVars, clockVars, dispatchVars,
                 loaded, req, total, atCount>>

\* Find fails: 500 and return
FindFail ==
  /\ apc = "counted"
  /\ nq' = nq + 1
  /\ resp' = [NoResp EXCEPT !.status = StatusInternalServerError]
  /\ apc' = "responded"
  /\ UNCHANGED <<ledgerVars, queueVars, workerVars, clockVars, dispatchVars,
                 loaded, req, total, atCount>>

\* another request commits an order while this one is between its queries
CreateOrder(o) ==
  /\ apc \in {"bound", "counted"}
  /\ Len(orders) < MaxOrders
  /\ Len(orders) > 0 => o.created_at >= orders[Len(orders)].created_at
  /\ orders' = Append(orders, o)
  /\ UNCHANGED <<users, credits, queueVars, workerVars, clockVars,
                 dispatchVars, apiVars>>

ListTransactions ==
  \/ \E rq \in SampleRequests : ShouldBindJSON(rq)
  \/ \E rq \in SampleRequests : ShouldBindJSONFail(rq)
  \/ Count
  \/ CountFail
  \/ Find
  \/ FindFail

(* --------------------------- specifications --------------------------- *)
IdleWorkers ==
  /\ pc = [w \in Workers |-> "idle"]
  /\ task = [w \in Workers |-> NoTask]
  /\ user = [w \in Workers |-> NoUser]
  /\ reply = [w \in Workers |-> NoReply]
  /\ response = [w \in Workers |-> NoScore]
  /\ txRow = [w \in Workers |-> NoUser]
  /\ txOrder = [w \in Workers |-> NoOrder]
  /\ ret = [w \in Workers |-> ""]
  /\ mark = [w \in Workers |-> 0]
  /\ lastOk = [u \in Users |-> NoScore]
  /\ lastLookup = [u \in Users |-> NoScore]

\* no Order being read, no ListTransactions request under way
IdleList ==
  /\ apc = "idle"
  /\ req = NoReq
  /\ total = 0
  /\ resp = NoResp
  /\ nq = 0
  /\ atCount = 0
IdleApi == loaded = NoLoaded /\ IdleList

IdleDispatcher ==
  /\ sweeps = 0
  /\ dpc = "idle"
  /\ page = 0
  /\ currentDelay = 0
  /\ oneWeekAgo = 0
  /\ found = <<>>
  /\ dret = ""
  /\ sent = <<>>
  /\ queries = 0
  /\ activeAtStart = {}
  /\ loginSinceStart = FALSE

\* users table right after the accounts were created
FreshLedger ==
  /\ users = [u \in Users |-> NewUser(u)]
  /\ orders = <<>>
  /\ credits = 0

\* the clock at the start
Now0 == 10 * DaySeconds + 100

\* last_login_at values at the start: now, on and just before the 7-day
\* cutoff, on the 8-day cutoff, and before both
LoginTimes ==
  {Now0 - 50, 3 * DaySeconds, 3 * DaySeconds - 1, 2 * DaySeconds,
   2 * DaySeconds - 1}

\* configured session lifetimes: one hour, eight days
SessionAges == {3600, 8 * DaySeconds}

\* one login history: the users logged in on distinct dates, lower ids later
FixedClock ==
  /\ now = Now0
  /\ lastLogin = [u \in Users |-> Now0 - u * DaySeconds]
  /\ sessionAge = 3600
  /\ logins = 0

\* a backlog of n tasks left by earlier sweeps, each with one retry left;
\* the handler treats all users alike, so the users are numbered by how many
\* tasks name them
Backlog(n) ==
  /\ \E b \in SubBag([t \in RetriedTasks |-> n]) :
       /\ BagCardinality(b) = n
       /\ \A t1, t2 \in RetriedTasks :
            t1.user_id < t2.user_id => CopiesIn(t1, b) >= CopiesIn(t2, b)
       /\ queue = b
  /\ archived = EmptyBag

WorkerStep(w) ==
  \/ \E t \in BagToSet(queue) : First(w, t)
  \/ \E t \in BagToSet(queue) : FirstFail(w, t)
  \/ \E r \in Replies : GetUserGamificationScore(w, r)
  \/ \E r \in Replies : GetUserGamificationScoreFail(w, r)
  \/ SkipUnchanged(w)
  \/ TxUpdateColumns(w)
  \/ TxUpdateColumnsFail(w)
  \/ TxCreate(w)
  \/ TxCreateFail(w)
  \/ TxCommit(w)
  \/ TxCommitFail(w)
  \/ ReturnErr(w)

\* id of a user whose row has been deleted
GoneUser == NumUsers + 1

\* a task as the dispatcher enqueues it, for a user of the table or for one
\* deleted since
FreshTasks == {[user_id |-> u, retried |-> 0] : u \in {1, GoneUser}}

\* the worker pool at work on a backlog, tasks of one user overlapping freely
InitWorker == FreshLedger /\ Backlog(MaxTasks) /\ IdleWorkers /\ IdleDispatcher /\ IdleApi /\ FixedClock

NextWorker ==
  \E w \in Workers :
    \/ WorkerStep(w)
    \/ ReturnNil(w) /\ UNCHANGED lastOk

SpecWorker == InitWorker /\ [][NextWorker]_vars

\* one freshly enqueued task and the queue's retries; the queue keeps handing
\* out pending tasks and a running handler keeps going
InitRetry ==
  /\ FreshLedger /\ IdleWorkers /\ IdleDispatcher /\ IdleApi /\ FixedClock
  /\ \E t \in FreshTasks : queue = SetToBag({t})
  /\ archived = EmptyBag

SpecRetry == InitRetry /\ [][NextWorker]_vars /\ WF_vars(NextWorker)

\* the same, with the tasks of one user handled one after the other
NextSeq ==
  \E w \in Workers :
    \/ WorkerStep(w) /\ (pc[w] = "idle" => ~Busy(task'[w].user_id))
    \/ ReturnNil(w) /\ RecordOk(w)

SpecSeq == InitWorker /\ [][NextSeq]_vars

\* one task at work while other writers credit the same ledger
InitCredit == FreshLedger /\ Backlog(1) /\ IdleWorkers /\ IdleDispatcher /\ IdleApi /\ FixedClock

NextCredit ==
  \/ \E w \in Workers :
       \/ WorkerStep(w)
       \/ ReturnNil(w) /\ UNCHANGED lastOk
  \/ \E u \in Users : TransferCredit(u, (u % NumUsers) + 1, Scale)

SpecCredit == InitCredit /\ [][NextCredit]_vars

\* login histories: the users logged in at distinct instants, lower ids
\* later, except that the two least recent may share one instant
LoginHistory(l) ==
  \A u, v \in Users :
    u < v => \/ l[u] > l[v]
             \/ l[u] = l[v] /\ u = NumUsers - 1

\* the dispatcher at work while users log in
InitDispatch ==
  /\ FreshLedger /\ IdleWorkers /\ IdleDispatcher /\ IdleApi
  /\ queue = EmptyBag
  /\ archived = EmptyBag
  /\ now = Now0
  /\ lastLogin \in [Users -> LoginTimes]
  /\ LoginHistory(lastLogin)
  /\ sessionAge \in SessionAges
  /\ logins = 0

NextDispatch ==
  \/ DispatchStart
  \/ QueryPage
  \/ QueryPageFail
  \/ \E u \in Users : Enqueue(u)
  \/ \E u \in Users : EnqueueFail(u)
  \/ \E u \in Users : Login(u)

SpecDispatch == InitDispatch /\ [][NextDispatch]_vars

\* configured session lifetimes on both sides of the 7-day floor, and one
\* below zero
SessionAgesWide ==
  {0 - 1, 0, 3600, 7 * DaySeconds, 8 * DaySeconds - 1, 8 * DaySeconds}

\* moments a sweep starts at: in the morning, and one second before midnight
StartTimes == {Now0, 11 * DaySeconds - 1}

\* a sweep under any of the configured session lifetimes
InitCutoff ==
  /\ FreshLedger /\ IdleWorkers /\ IdleDispatcher /\ IdleApi
  /\ queue = EmptyBag
  /\ archived = EmptyBag
  /\ now \in StartTimes
  /\ lastLogin \in [Users -> LoginTimes]
  /\ LoginHistory(lastLogin)
  /\ sessionAge \in SessionAgesWide
  /\ logins = 0

\* a step of a running sweep
SweepStep ==
  \/ QueryPage
  \/ QueryPageFail
  \/ \E u \in Users : Enqueue(u)
  \/ \E u \in Users : EnqueueFail(u)

\* one sweep while users log in
NextSweep ==
  \/ sweeps = 0 /\ DispatchStart
  \/ SweepStep
  \/ \E u \in Users : Login(u)

\* the handler runs on once it has been invoked: a goroutine of the asynq
\* server that nothing blocks but its own calls
SpecSweep == InitDispatch /\ [][NextSweep]_vars /\ WF_vars(SweepStep)

SpecCutoff == InitCutoff /\ [][NextSweep]_vars

\* one user inside the activity window, the others lapsed for months
OneActive ==
  /\ now = Now0
  /\ lastLogin = [u \in Users |-> IF u = 1 THEN Now0 - 50 ELSE DaySeconds - u]
  /\ sessionAge = 3600
  /\ logins = 0

\* the two handlers and the queue between them: sweeps enqueue the tasks the
\* worker pool handles
Init ==
  /\ FreshLedger /\ IdleWorkers /\ IdleDispatcher /\ IdleApi /\ OneActive
  /\ queue = EmptyBag
  /\ archived = EmptyBag

Next ==
  \/ DispatchStart
  \/ QueryPage
  \/ QueryPageFail
  \/ \E u \in Users : Enqueue(u)
  \/ \E u \in Users : EnqueueFail(u)
  \/ \E w \in Workers :
       \/ WorkerStep(w)
       \/ ReturnNil(w) /\ UNCHANGED lastOk

Spec == Init /\ [][Next]_vars

\* rows read from the orders table, one AfterFind hook each
InitRead ==
  /\ FreshLedger /\ IdleWorkers /\ IdleDispatcher /\ IdleList /\ FixedClock
  /\ queue = EmptyBag /\ archived = EmptyBag
  /\ InitOrderNo

NextRead == AfterFind

SpecRead == InitRead /\ [][NextRead]_vars


\* one ListTransactions request against a filled orders table, other
\* requests adding orders meanwhile
InitList ==
  /\ users = [u \in Users |-> NewUser(u)]
  /\ orders \in OrderTables(MaxOrders)
  /\ credits = 0
  /\ queue = EmptyBag /\ archived = EmptyBag
  /\ IdleWorkers /\ IdleDispatcher /\ IdleApi /\ FixedClock

NextList ==
  \/ ListTransactions
  \/ \E o \in SampleOrders : CreateOrder(o)

SpecList == InitList /\ [][NextList]_vars

\* tasks piled up for one user: MaxTasks + 1 of them pending at once, left
\* by sweeps that ran before the earlier tasks were handled
InitPile ==
  /\ FreshLedger /\ IdleWorkers /\ IdleDispatcher /\ IdleApi /\ FixedClock
  /\ queue = [t \in {[user_id |-> 1, retried |-> MaxRetry - 1]} |-> MaxTasks + 1]
  /\ archived = EmptyBag

SpecPile == InitPile /\ [][NextWorker]_vars

(* ------------------------------- claims ------------------------------- *)
\* orders credited to user u
PayeeIdx(u) ==
  {i \in 1..Len(orders) : orders[i].payee_username = Username(u)}

\* success-status community-type orders credited to user u
CommunityIdx(u) ==
  {i \in PayeeIdx(u) : /\ orders[i].type = OrderTypeCommunity
                       /\ orders[i].status = OrderStatusSuccess}

\* orders credited to the user of worker w since w loaded the row
OrdersSince(w) ==
  {i \in (mark[w] + 1)..Len(orders) : orders[i].payee_username = user[w].username}

\* worker w leaves its transaction (or fails to open it) in this step
EndsTx(w) == pc[w] \in {"fetched", "updated", "created"} /\ pc'[w] = "done"

\* C1: ledger mutation and community order are committed together or not at
\* all: a step changes the users table iff it appends an order; a handler
\* whose column update, insert or commit fails returns the error and leaves
\* the committed rows and orders as they were; a commit publishes the updated
\* row together with its order and the handler returns nil.
C1_Atomic ==
  [][ /\ (users' # users) <=> (orders' # orders)
      /\ \A w \in Workers :
           EndsTx(w) =>
             IF pc[w] = "created" /\ orders' # orders
               THEN /\ ret'[w] = "nil"
                    /\ orders' = Append(orders, txOrder[w])
                    /\ users' = [users EXCEPT ![Uid(w)] = txRow[w]]
                    /\ users' # users
               ELSE /\ users' = users
                    /\ orders' = orders
                    /\ (ret'[w] = "nil" \/ ret'[w] \in {"ErrUpdate", "ErrCreate", "ErrCommit"})
                    /\ (pc[w] \in {"updated", "created"} => ret'[w] \in {"ErrCreate", "ErrCommit"})
    ]_vars

\* C1 witness: the column update succeeded, the insert failed, and the
\* committed row still has its pre-transaction values with no order stored
C1_Witness ==
  \E w \in Workers :
    /\ pc[w] = "done"
    /\ ret[w] = "ErrCreate"
    /\ users[Uid(w)] = user[w]
    /\ PayeeIdx(Uid(w)) = {}

\* C2: available_balance of every user is its initial value plus the sum of
\* the amounts of the orders committed for that user.
C2_BalanceIsSumOfDeltas ==
  \A u \in Users :
    users[u].available_balance =
      NewUser(u).available_balance + SumAmounts(orders, PayeeIdx(u))

\* C2 witness: two committed orders for one user, the second by a task that
\* failed before and was retried
C2_Witness ==
  \E w \in Workers :
    /\ pc[w] = "done"
    /\ ret[w] = "nil"
    /\ task[w].retried = MaxRetry
    /\ Cardinality(PayeeIdx(Uid(w))) >= 2
    /\ users[Uid(w)].available_balance # 0

\* C3: a run that observes the score the latest successful run for the same
\* user observed changes no row, creates no order and returns nil.
C3_Idempotent ==
  [][ \A w \in Workers :
        (/\ pc[w] \in {"loaded", "fetched"}
         /\ pc'[w] # pc[w]
         /\ IF pc[w] = "loaded" THEN pc'[w] = "fetched" /\ response'[w] = lastOk[Uid(w)]
                                ELSE response[w] = lastOk[Uid(w)])
        => /\ users' = users
           /\ orders' = orders
           /\ pc[w] = "fetched" => (pc'[w] = "done" /\ ret'[w] = "nil")
    ]_vars

\* C3 witness: a second run has returned nil without an order of its own,
\* after a first run that committed one for the same score
C3_Witness ==
  \E w \in Workers :
    /\ pc[w] = "done"
    /\ ret[w] = "nil"
    /\ lastOk[Uid(w)] = response[w]
    /\ mark[w] = Len(orders)
    /\ CommunityIdx(Uid(w)) # {}

\* C4: each community order of a user starts from the total the previous one
\* left (one order per change of the score), and the balance has been
\* credited with each change once.
C4_OncePerChange ==
  \A u \in Users :
    /\ \A i, j \in CommunityIdx(u) :
         (i < j /\ ~\E k \in CommunityIdx(u) : i < k /\ k < j)
           => orders[j].remark[1] = orders[i].remark[2]
    /\ users[u].available_balance = users[u].total_community

\* C5: total_community is the sum of the amounts of the user's success-status
\* community orders.
C5_TotalCommunityIsSum ==
  \A u \in Users :
    users[u].total_community = SumAmounts(orders, CommunityIdx(u))

\* C6: whatever was credited to a user since a worker read the row is in the
\* committed row: total_receive and available_balance are what the worker
\* read plus every amount committed for the user since, its own delta included.
C6_NoLostUpdate ==
  \A w \in Workers :
    user[w].id # 0 =>
      /\ users[user[w].id].total_receive =
           user[w].total_receive + SumAmounts(orders, OrdersSince(w))
      /\ users[user[w].id].available_balance =
           user[w].available_balance + SumAmounts(orders, OrdersSince(w))

\* C6 witness: a transfer credit landed after the worker read the row and
\* before the worker committed its own order
C6_Witness ==
  \E w \in Workers :
    /\ pc[w] = "done"
    /\ ret[w] = "nil"
    /\ \E i, j \in OrdersSince(w) :
         /\ i < j
         /\ orders[i].type = OrderTypeTransfer
         /\ orders[j].type = OrderTypeCommunity

\* C7: a task running alone that observes a score different from the stored
\* total and succeeds appends exactly one order (community, success, payer
\* "LINUX DO Community", payee the user, amount new - old), sets
\* total_community to new and adds new - old to total_receive and
\* available_balance.
C7_DeltaApplied ==
  [][ \A w \in Workers :
        (EndsTx(w) /\ ret'[w] = "nil" /\ users[Uid(w)].total_community # response[w] * Scale)
        => LET u == Uid(w)
               old == users[u].total_community
               new == response[w] * Scale
               o == orders'[Len(orders')]
           IN /\ Len(orders') = Len(orders) + 1
              /\ SubSeq(orders', 1, Len(orders)) = orders
              /\ o.type = "community"
              /\ o.status = "success"
              /\ o.payer_username = "LINUX DO Community"
              /\ o.payee_username = users[u].username
              /\ o.amount = new - old
              /\ users'[u].total_community = new
              /\ users'[u].total_receive = users[u].total_receive + (new - old)
              /\ users'[u].available_balance = users[u].available_balance + (new - old)
    ]_vars

\* C7 witness: a lone task has committed the order of a change from a
\* non-zero stored total
C7_Witness ==
  \E w \in Workers :
    /\ pc[w] = "done"
    /\ ret[w] = "nil"
    /\ user[w].total_community # 0
    /\ Len(orders) = mark[w] + 1
    /\ orders[Len(orders)].amount = response[w] * Scale - user[w].total_community
    /\ users[Uid(w)].total_community = response[w] * Scale

\* C8: every stored order has a non-negative amount.
C8_AmountNonNegative ==
  \A i \in 1..Len(orders) : orders[i].amount >= 0

\* C9: a step of a reconciliation task leaves total_payment and
\* total_transfer of its user, every row of the other users and every stored
\* order as they were; a step of the dispatch sweep leaves the users and
\* orders tables as they were.
C9_Frame ==
  [][ /\ \A w \in Workers :
           pc'[w] # pc[w] =>
             LET u == IF pc[w] = "idle" THEN task'[w].user_id ELSE Uid(w)
             IN /\ users'[u].total_payment = users[u].total_payment
                /\ users'[u].total_transfer = users[u].total_transfer
                /\ \A v \in Users \ {u} : users'[v] = users[v]
                /\ Len(orders') >= Len(orders)
                /\ SubSeq(orders', 1, Len(orders)) = orders
      /\ dispatchVars' # dispatchVars => (users' = users /\ orders' = orders)
    ]_vars

\* C9 witness: a sweep has completed and a task it enqueued has committed
C9_Witness ==
  /\ dpc = "done"
  /\ dret = "nil"
  /\ Len(sent) >= 1
  /\ \E u \in Users : CommunityIdx(u) # {} /\ users[u].total_community # 0

\* number of tasks the current sweep has enqueued for user u
CountSent(u) == Cardinality({i \in 1..Len(sent) : sent[i].user_id = u})

\* C10 as stated: a sweep that returns nil has enqueued exactly one task for
\* each user that was inside the window when it started, and none for a user
\* outside the window.
C10_OneTaskPerActiveUser ==
  (dpc = "done" /\ dret = "nil") =>
    \A u \in Users :
      /\ u \in activeAtStart => CountSent(u) = 1
      /\ (u \notin activeAtStart /\ lastLogin[u] < oneWeekAgo) => CountSent(u) = 0

\* no two users inside the window share a last_login_at
DistinctLogins ==
  \A u, v \in Active(oneWeekAgo) : u # v => lastLogin[u] # lastLogin[v]

\* C10 amended: when no last_login_at changes between the start of the sweep
\* and its return and the users inside the window have pairwise distinct
\* last_login_at, a sweep that returns nil has enqueued exactly N tasks, one
\* for each of the N users inside the window and none for any other user.
C10_OneTaskPerActiveUserNoLogin ==
  (dpc = "done" /\ dret = "nil" /\ ~loginSinceStart /\ DistinctLogins) =>
    /\ Len(sent) = Cardinality(Active(oneWeekAgo))
    /\ \A u \in Users :
         CountSent(u) = IF u \in Active(oneWeekAgo) THEN 1 ELSE 0

\* C10 witness: a sweep over more users than one page holds has returned nil
C10_Witness ==
  /\ dpc = "done"
  /\ dret = "nil"
  /\ ~loginSinceStart
  /\ DistinctLogins
  /\ Len(sent) > PageSize
  /\ Len(sent) = Cardinality(Active(oneWeekAgo))
\* ceil(n / p)
CeilDiv(n, p) == (n + p - 1) \div p

\* C11 as stated: a sweep that returns nil over N active users has issued
\* ceil(N/P) page queries, the last one returning the empty page.
C11_CeilQueries ==
  (dpc = "done" /\ dret = "nil") =>
    /\ queries = CeilDiv(Cardinality(activeAtStart), PageSize)
    /\ found = <<>>

\* C11 amended: a sweep that returns nil over an active-user set of size N
\* that does not change while it runs has issued ceil(N/P) + 1 page queries:
\* every query before the last returned rows and advanced the page, and the
\* last one is the first to return an empty page.
C11_CeilQueriesPlusOne ==
  /\ dpc = "query" => queries = page
  /\ dpc = "enqueue" => (queries = page + 1 /\ found # <<>>)
  /\ (dpc = "done" /\ dret = "nil") => (queries = page + 1 /\ found = <<>>)
  /\ (dpc = "done" /\ dret = "nil" /\ Active(oneWeekAgo) = activeAtStart) =>
       queries = CeilDiv(Cardinality(activeAtStart), PageSize) + 1

\* C11 witness: a sweep over more than one page, the last page partly filled,
\* has returned nil
C11_Witness ==
  /\ dpc = "done"
  /\ dret = "nil"
  /\ Active(oneWeekAgo) = activeAtStart
  /\ Cardinality(activeAtStart) > PageSize
  /\ Cardinality(activeAtStart) % PageSize # 0
  /\ queries = CeilDiv(Cardinality(activeAtStart), PageSize) + 1

\* C12: the k-th task a sweep enqueues has delay k times the interval: each
\* delay exceeds the one before by exactly the interval, also across pages.
C12_DelayCumulative ==
  \A k \in 1..Len(sent) :
    /\ sent[k].delay = k * DispatchIntervalSeconds
    /\ k > 1 => /\ sent[k].delay > sent[k - 1].delay
                /\ sent[k].delay - sent[k - 1].delay = DispatchIntervalSeconds

\* C12 witness: a sweep has enqueued tasks of a second page
C12_Witness ==
  /\ dpc = "done"
  /\ dret = "nil"
  /\ page >= 2
  /\ Len(sent) > PageSize
  /\ sent[Len(sent)].delay = Len(sent) * DispatchIntervalSeconds

\* C13: a step in which the page query or an Enqueue fails ends the sweep
\* with that error and enqueues nothing; an iteration of the inner loop that
\* enqueues nothing is such a step; after the error the sweep queries no page
\* and enqueues no task.
C13_AbortOnError ==
  [][ /\ (dret' # dret /\ dret' \in Errors) =>
           /\ dpc' = "done"
           /\ sent' = sent
           /\ queue' = queue
           /\ page' = page
      /\ (currentDelay' # currentDelay /\ sweeps' = sweeps /\ sent' = sent) =>
           (dpc' = "done" /\ dret' = "ErrEnqueue")
      /\ dpc = "enqueue" => queries' = queries
      /\ (dpc = "done" /\ dret \in Errors /\ sweeps' = sweeps) =>
           /\ sent' = sent
           /\ queue' = queue
           /\ queries' = queries
           /\ dret' = dret
    ]_vars

\* C13 witness: the Enqueue for the second user failed; the sweep has ended
\* with the error, one task enqueued, a later user never reached
C13_Witness ==
  /\ dpc = "done"
  /\ dret = "ErrEnqueue"
  /\ Len(sent) >= 1
  /\ found # <<>>
  /\ \A k \in 1..Len(sent) : sent[k].user_id # Head(found)
  /\ Cardinality(activeAtStart) > Len(sent) + 1
\* tasks pending, archived or in a worker's hands
TasksAlive ==
  BagToSet(queue) \cup BagToSet(archived)
    \cup {task[w] : w \in {v \in Workers : pc[v] # "idle"}}

\* C14: a task is executed at most 1 + MaxRetry times (retried never exceeds
\* MaxRetry); when an execution returns an error the task is put back with
\* retried + 1, or archived once retried = MaxRetry, and never lost; when it
\* returns nil the task is finished; eventually no task is pending or running.
C14_BoundedRetry ==
  /\ [][ /\ \A t \in TasksAlive' : t.retried <= MaxRetry
         /\ \A t \in BagToSet(archived') : t.retried = MaxRetry
         /\ \A w \in Workers :
              (pc[w] = "done" /\ pc'[w] = "idle") =>
                IF ret[w] = "nil"
                  THEN queue' = queue /\ archived' = archived
                  ELSE IF task[w].retried < MaxRetry
                    THEN /\ queue' = queue (+) SetToBag({[task[w] EXCEPT !.retried = @ + 1]})
                         /\ archived' = archived
                    ELSE /\ archived' = archived (+) SetToBag({task[w]})
                         /\ queue' = queue
       ]_vars
  /\ <>[](queue = EmptyBag /\ \A w \in Workers : pc[w] = "idle")

\* C14 witness: a task of an existing user whose four executions all failed
\* has been archived
C14_Witness ==
  /\ archived # EmptyBag
  /\ queue = EmptyBag
  /\ \A t \in BagToSet(archived) : t.retried = MaxRetry /\ t.user_id \in Users

\* C15: a task whose user no longer exists is executed once: when its
\* handler has returned the error the task is not put back into the queue;
\* the handler makes no lookup and changes no row and no order.
C15_GoneUserNotRetried ==
  [][ \A w \in Workers :
        (pc[w] # "idle" /\ task[w].user_id \notin Users /\ pc'[w] # pc[w]) =>
          /\ queue' = queue
          /\ reply' = reply
          /\ users' = users
          /\ orders' = orders
    ]_vars

\* the answer is one the lookup reports as an error
LookupFailed(r) ==
  r.transport = "error" \/ r.status # 200 \/ r.json = "invalid"

\* C16: when the external lookup fails (transport error, status other than
\* 200, undecodable body) the handler returns the error at once, and no step
\* of that attempt changes a users row or an order.
C16_LookupFailureNoChange ==
  [][ \A w \in Workers :
        /\ (pc[w] = "loaded" /\ pc'[w] # "loaded" /\ LookupFailed(reply'[w])) =>
             /\ pc'[w] = "done"
             /\ ret'[w] = "ErrScore"
             /\ users' = users
             /\ orders' = orders
        /\ (pc[w] = "done" /\ ret[w] = "ErrScore" /\ pc'[w] # "done") =>
             /\ pc'[w] = "idle"
             /\ users' = users
             /\ orders' = orders
    ]_vars

\* C16 witness: a lookup answered with status 500 has made the handler
\* return the error while another task's order is committed
C16_Witness ==
  \E w \in Workers :
    /\ pc[w] = "done"
    /\ ret[w] = "ErrScore"
    /\ reply[w] = ServerError
    /\ user[w] = users[Uid(w)]
    /\ orders # <<>>

\* C17: a 200 answer whose object has no gamification_score member is a
\* failure: the handler returns an error and never goes on with a score.
C17_MissingFieldIsFailure ==
  \A w \in Workers :
    reply[w] = EmptyObject => (pc[w] = "done" /\ ret[w] = "ErrScore")

RECURSIVE ParseDigits(_)
\* the number a string of decimal digits denotes
ParseDigits(ds) ==
  IF ds = <<>> THEN 0
  ELSE ParseDigits(SubSeq(ds, 1, Len(ds) - 1)) * 10 + DigitValue(ds[Len(ds)])

\* strconv.ParseUint(ds, 10, 64), as limbs
ParseUint(ds) ==
  LET n == Len(ds)
      cut(a, b) == SubSeq(ds, IF a < 1 THEN 1 ELSE a, b)
  IN <<ParseDigits(cut(1, n - 2 * LimbDigits)),
       ParseDigits(cut(n - 2 * LimbDigits + 1, n - LimbDigits)),
       ParseDigits(cut(n - LimbDigits + 1, n))>>

RECURSIVE TrimZeros(_)
\* a string of digits without its leading zeros
TrimZeros(ds) ==
  IF Len(ds) > 1 /\ Head(ds) = "0" THEN TrimZeros(Tail(ds)) ELSE ds

OnlyDigits(ds) == \A i \in 1..Len(ds) : \E d \in 0..9 : ds[i] = DigitChars[d + 1]

\* the ID is below 10^OrderNoWidth, that is has at most OrderNoWidth digits
FitsWidth(id) == id[1] < 10 ^ (OrderNoWidth - 2 * LimbDigits)

C19_RejectedBeforeQuery ==
  (\/ req.page_size < 1
   \/ req.page_size > 100
   \/ req.page < 1) =>
     \/ apc = "idle"
     \/ /\ apc = "responded"
        /\ resp.status = StatusBadRequest
        /\ nq = 0

\* a page_size of 101, one past the bound, has been rejected
C19_Witness ==
  /\ apc = "responded"
  /\ req.page_size = 101 /\ req.page = 1
  /\ req.type = "" /\ req.status = ""
  /\ req.start_time = NoTime /\ req.end_time = NoTime
  /\ resp.status = StatusBadRequest

\* what the request asks for, of one order
Wanted(o) ==
  /\ o.payer_username = req.username \/ o.payee_username = req.username
  /\ req.type # "" => o.type = req.type
  /\ req.status # "" => o.status = req.status
  /\ req.start_time # NoTime => o.created_at >= req.start_time
  /\ req.end_time # NoTime => o.created_at <= req.end_time

\* C20: in a 200 response, each order returned is a row of the table with
\* the requester as payer or payee and satisfying every supplied filter; no
\* row comes twice; the page holds at most page_size orders in non-increasing
\* created_at order; page 1 starts with a most recent matching order; total is
\* the number of rows matching the requester and the filters when the count
\* ran.
C20_PageOfMatchingOrders ==
  (apc = "responded" /\ resp.status = StatusOK) =>
    LET P == resp.orders
    IN /\ \A i \in DOMAIN P :
            /\ P[i].id \in DOMAIN orders
            /\ P[i] = Row(P[i].id)
            /\ Wanted(P[i])
       /\ \A i, j \in DOMAIN P : i < j => P[i].id # P[j].id
       /\ Len(P) <= req.page_size
       /\ \A i, j \in DOMAIN P : i < j => P[i].created_at >= P[j].created_at
       /\ (req.page = 1 /\ \E k \in DOMAIN orders : Wanted(orders[k])) =>
            /\ Len(P) >= 1
            /\ \A k \in DOMAIN orders :
                 Wanted(orders[k]) => P[1].created_at >= orders[k].created_at
       /\ resp.total = Cardinality({k \in 1..atCount : Wanted(orders[k])})

\* a filtered first page came back full, more rows matching than it holds,
\* the table holding a row of another user as well
C20_Witness ==
  /\ apc = "responded" /\ resp.status = StatusOK
  /\ req.username = "bob" /\ req.type = "transfer"
  /\ req.page = 1 /\ req.page_size = 1
  /\ resp.total = 2
  /\ Len(resp.orders) = 1
  /\ resp.orders[1].created_at = 2
  /\ \E k \in DOMAIN orders : orders[k].payer_username = CommunityPayer

\* no reconciliation task for user u is pending or running, and none has
\* been given up
Quiescent(u) ==
  /\ \A t \in BagToSet(queue) \cup BagToSet(archived) : t.user_id # u
  /\ \A w \in Workers : pc[w] # "idle" => task[w].user_id # u

\* C21: once every in-flight reconciliation task for a user has finished
\* (committed or no-op), total_community of that user equals the score the
\* most recent lookup made for that user returned.
C21_LastLookupWins ==
  \A u \in Users :
    (Quiescent(u) /\ lastLookup[u] # NoScore) =>
      users[u].total_community = lastLookup[u] * Scale

\* C22: with every observed score non-negative (the scores are drawn from
\* 0..MaxScore) and every ledger field 0 at the start, total_receive,
\* total_community and available_balance of every user are non-negative in
\* every reachable state.
C22_LedgerNonNegative ==
  \A u \in Users :
    /\ users[u].total_receive >= 0
    /\ users[u].total_community >= 0
    /\ users[u].available_balance >= 0

\* C23: a dispatch sweep terminates. The page counter advances by one, the
\* offset by one page size, after every non-empty page and only then; a
\* sweep issues at most ceil(NumUsers / PageSize) + 1 page queries; it
\* returns nil only on an empty page; and a running sweep always comes to
\* return, nil or an error, also when users log in while it runs.
C23_SweepTerminates ==
  /\ [][ /\ (page' # page /\ sweeps' = sweeps) =>
              /\ dpc = "enqueue" /\ Len(found) = 1
              /\ page' = page + 1
              /\ PageOffset(page') = PageOffset(page) + PageSize
         /\ (dpc = "query" /\ dpc' = "enqueue") => (found' # <<>> /\ page' = page)
         /\ (dpc # "done" /\ dpc' = "done") =>
              \/ dret' = "nil" /\ dpc = "query" /\ found' = <<>>
              \/ dret' = "ErrQuery" /\ dpc = "query"
              \/ dret' = "ErrEnqueue" /\ dpc = "enqueue"
      ]_vars
  /\ [](queries <= CeilDiv(NumUsers, PageSize) + 1)
  /\ (dpc \in {"query", "enqueue"}) ~> (dpc = "done")

\* C23 witness: a sweep has returned nil after a login moved a user it had
\* already enqueued to the head of the ordering, so that the user next to the
\* page boundary was shifted onto the following page
C23_Witness ==
  /\ dpc = "done"
  /\ dret = "nil"
  /\ loginSinceStart
  /\ page >= 2
  /\ \E i, j \in 1..Len(sent) : i < j /\ sent[i].user_id = sent[j].user_id

\* max(7, floor(age / 86400))
WindowDays(age) == IF age \div 86400 > 7 THEN age \div 86400 ELSE 7

\* users whose last_login_at is at or after the cutoff of the sweep
InWindow == {u \in Users : lastLogin[u] >= oneWeekAgo}

\* C24: the cutoff of a sweep is midnight of the day the sweep starts on
\* minus D days, D = max(7, floor(SessionAge / 86400)) >= 7; it is computed
\* when the sweep starts and stays the same for every page query; a page
\* query selects from exactly the users whose last_login_at is at or after
\* the cutoff; and a sweep that returns nil, no login moving a row meanwhile,
\* has enumerated exactly those users.
C24_Cutoff ==
  /\ [][ /\ sweeps' # sweeps =>
              /\ WindowDays(sessionAge) >= 7
              /\ oneWeekAgo' = (now - (now % 86400))
                                 - WindowDays(sessionAge) * 86400
         /\ sweeps' = sweeps => oneWeekAgo' = oneWeekAgo
         /\ (queries' # queries /\ sweeps' = sweeps /\ dret' # "ErrQuery") =>
              /\ \A i \in 1..Len(found') : found'[i] \in InWindow
              /\ LET rest == Cardinality(InWindow) - page * PageSize
                 IN Len(found') = IF rest <= 0 THEN 0
                                  ELSE IF rest < PageSize THEN rest
                                  ELSE PageSize
      ]_vars
  /\ [](\A k \in 1..Len(sent) : sent[k].user_id \in InWindow)
  /\ []((dpc = "done" /\ dret = "nil" /\ ~loginSinceStart /\ DistinctLogins) =>
          {sent[k].user_id : k \in 1..Len(sent)} = InWindow)

\* C24 witness: under a session lifetime of eight days a sweep started one
\* second before midnight has returned nil, having enumerated the user who
\* logged in at the cutoff itself and not the one who logged in the second
\* before
C24_Witness ==
  /\ dpc = "done"
  /\ dret = "nil"
  /\ ~loginSinceStart
  /\ sessionAge = 8 * 86400
  /\ oneWeekAgo = 2 * 86400
  /\ now = 11 * 86400 - 1
  /\ \E k \in 1..Len(sent) : lastLogin[sent[k].user_id] = oneWeekAgo
  /\ \E u \in Users :
       /\ lastLogin[u] = oneWeekAgo - 1
       /\ \A k \in 1..Len(sent) : sent[k].user_id # u

\* the task the dispatcher enqueues for user u
TaskFor(u) == [user_id |-> u, retried |-> 0]

\* C25: when the Enqueue for the k-th user fails and the sweep aborts, the
\* k-1 tasks it enqueued stay in the queue; the start of another sweep takes
\* nothing back either; and every Enqueue of a later sweep adds one more task,
\* also for a user who has a task pending already.
C25_NoRetraction ==
  [][ /\ (dret' = "ErrEnqueue" /\ dret # "ErrEnqueue") =>
           /\ queue' = queue
           /\ \A k \in 1..Len(sent) : BagIn(TaskFor(sent[k].user_id), queue')
      /\ sweeps' # sweeps => queue' = queue
      /\ (sent' # sent /\ sweeps' = sweeps) =>
           LET u == sent'[Len(sent')].user_id
           IN /\ CopiesIn(TaskFor(u), queue') = CopiesIn(TaskFor(u), queue) + 1
              /\ \A v \in Users \ {u} :
                   CopiesIn(TaskFor(v), queue') = CopiesIn(TaskFor(v), queue)
    ]_vars

\* C25 witness: the first sweep aborted on its second Enqueue, having
\* enqueued one task; the re-run went through all three users: two tasks are
\* pending for the first user
C25_Witness ==
  /\ sweeps = 2
  /\ dpc = "done"
  /\ dret = "nil"
  /\ logins = 0
  /\ Len(sent) = 3
  /\ BagCardinality(queue) = 4
  /\ CopiesIn(TaskFor(sent[1].user_id), queue) = 2
====
